---- MODULE Spec2Model ----
(***************************************************************************)
(* Session lifecycle of the Firefox session controller (src/app.py).       *)
(* The Flask views launch_firefox and stop_firefox run in concurrent       *)
(* request threads against two module-level globals (active_sessions,      *)
(* status_log_messages) and the Docker engine.  Every engine call is one   *)
(* step, so that other requests interleave between the engine calls of a   *)
(* request exactly where the code does blocking I/O.                       *)
(***************************************************************************)
EXTENDS Integers, Sequences, FiniteSets, TLC

\* ---------------------------------------------------------------- bounds
NumProcs == 2
NumSessionIds == 2
MaxRequests == 3
MaxFaults == 1
MaxLogRequests == 12

\* ---------------------------------------------------- program constants
MaxLog == 10

Procs == 1..NumProcs
SessionIds == 1..NumSessionIds

None == [none |-> TRUE]
NoSid == 0
NoHandle == 0

VARIABLES
    client,               \* TRUE: docker.from_env() succeeded; FALSE: client is None
    active_sessions,      \* insertion-ordered dict: sequence of [k, v]
    status_log_messages,  \* newest first
    clock,                \* os.times().elapsed, as the ordinal of the add_status call
    containers,           \* the engine's containers
    next_id,              \* the id the engine gives to the next container
    pc,                   \* position of each request thread
    session_id,           \* local session_id of each thread
    session_info,         \* local session_info of stop_firefox
    handle,               \* local container / existing_container (its id)
    calls,                \* engine calls of the thread's current (or last) request
    popped,               \* container ids whose record a stop call has obtained
    nreq,                 \* requests received so far
    nfaults,              \* engine failures not forced by the engine's state, so far
    listing,              \* home: the iteration over sessions.items() in the template
    inserted              \* container ids in the order line 162 stored their records

vars == <<client, active_sessions, status_log_messages, clock, containers,
          next_id, pc, session_id, session_info, handle, calls, popped, nreq, nfaults,
          listing, inserted>>

\* ------------------------------------------------------- dict operations
Keys(d) == {d[i].k : i \in 1..Len(d)}

IndexOf(d, k) == CHOOSE i \in 1..Len(d) : d[i].k = k

DictGet(d, k) == IF k \in Keys(d) THEN d[IndexOf(d, k)].v ELSE None

\* a registry kept as a list of records: every insert appends
DictSetAppend(d, k, v) == Append(d, [k |-> k, v |-> v])

\* d[k] = v : an existing key keeps its position, a new key goes last
DictSet(d, k, v) ==
    IF k \in Keys(d)
    THEN [i \in 1..Len(d) |-> IF d[i].k = k THEN [k |-> k, v |-> v] ELSE d[i]]
    ELSE Append(d, [k |-> k, v |-> v])

\* a removal that removes nothing
DictRemoveNothing(d, k) == d

DictRemove(d, k) ==
    IF k \in Keys(d)
    THEN LET n == IndexOf(d, k)
         IN  SubSeq(d, 1, n - 1) \o SubSeq(d, n + 1, Len(d))
    ELSE d

\* d.get(k) in place of d.pop(k, None): the record stays in the dict
DictPopPeek(d, k) == [value |-> DictGet(d, k), dict |-> d]

\* d.pop(k, None): the value returned and the dict left behind
DictPop(d, k) == [value |-> DictGet(d, k), dict |-> DictRemove(d, k)]

\* ------------------------------------------------------------ status log
RECURSIVE TrimLog(_)
TrimLog(log) ==
    IF Len(log) > MaxLog THEN TrimLog(SubSeq(log, 1, Len(log) - 1)) ELSE log

Entry(t, msg, sid) == [t |-> t, msg |-> msg, sid |-> sid]

add_status(log, t, msg, sid) == TrimLog(<<Entry(t, msg, sid)>> \o log)

\* ---------------------------------------------------------------- names
\* strings built by f-strings are the sequences of their pieces
IdStr(sid) == ToString(sid)

ContainerName(sid) == <<"firefox-session-", IdStr(sid)>>

SessionRecord(cid, sid) == [container_id |-> cid, container_name |-> ContainerName(sid)]

\* --------------------------------------------------------- routing labels
FIREFOX_INTERNAL_PORT == "5800"

SessionPath(sid) == <<"/session/", IdStr(sid)>>

MiddlewareName(sid) == <<"strip-session-", IdStr(sid)>>

\* the items of the labels dict literal, in source order; ref is the middleware
\* the router names, def the middleware the dict defines (the backquotes around
\* the path of the rule are left out of its pieces)
LabelItems(sid, ref, def) ==
    LET name == ContainerName(sid)
    IN  << <<<<"traefik.enable">>, <<"true">>>>,
           <<<<"traefik.http.routers.">> \o name \o <<".rule">>,
             <<"PathPrefix(">> \o SessionPath(sid) \o <<")">>>>,
           <<<<"traefik.http.routers.">> \o name \o <<".entrypoints">>, <<"web">>>>,
           <<<<"traefik.http.services.">> \o name \o <<".loadbalancer.server.port">>,
             <<FIREFOX_INTERNAL_PORT>>>>,
           <<<<"traefik.http.routers.">> \o name \o <<".middlewares">>, ref>>,
           <<<<"traefik.http.middlewares.">> \o def \o <<".stripprefix.prefixes">>,
             SessionPath(sid)>> >>

\* a dict literal: of two items with one key the later one stays
DictLiteral(items) ==
    [k \in {items[i][1] : i \in 1..Len(items)} |->
        LET at == {i \in 1..Len(items) : items[i][1] = k}
        IN  items[CHOOSE i \in at : \A j \in at : j <= i][2]]

\* the router names a middleware built from the container name
LabelsDanglingMiddleware(sid) ==
    DictLiteral(LabelItems(sid, <<"strip-">> \o ContainerName(sid), MiddlewareName(sid)))

\* the middleware name leaves the session id out
LabelsSharedMiddleware(sid) ==
    DictLiteral(LabelItems(sid, <<"strip-session">>, <<"strip-session">>))

Labels(sid) == DictLiteral(LabelItems(sid, MiddlewareName(sid), MiddlewareName(sid)))

\* ------------------------------------------------------------ exceptions
IsInstance(exc, cls) ==
    CASE cls = "Exception" -> TRUE
      [] cls = "APIError"  -> exc \in {"APIError", "NotFound"}
      [] cls = "NotFound"  -> exc = "NotFound"

\* the first except clause that matches, as Python picks it
Handler(exc, clauses) ==
    LET m == {i \in 1..Len(clauses) : IsInstance(exc, clauses[i])}
    IN  IF m = {} THEN "unhandled"
        ELSE clauses[CHOOSE i \in m : \A j \in m : i <= j]

\* launch_firefox without its catch-all clause
LaunchExceptNoCatchAll == <<"APIError">>

LaunchExcept == <<"APIError", "Exception">>

CleanupExcept == <<"NotFound", "Exception">>

\* stop_firefox without its catch-all clause
StopExceptNoCatchAll == <<"NotFound", "APIError">>

\* stop_firefox with the APIError clause ahead of its subclass NotFound
StopExceptApiFirst == <<"APIError", "NotFound", "Exception">>

StopExcept == <<"NotFound", "APIError", "Exception">>

\* the views without their guard
NoClientUnchecked(c) == FALSE

\* "if not client": the guard at the top of both views
NoClient(c) == ~c

\* a failed stop that puts session_info back
StopErrorRegistryReinsert(d, sid, info) == DictSet(d, sid, info)

\* the except clauses of stop_firefox leave the popped record out of the registry
StopErrorRegistry(d, sid, info) == d

\* ---------------------------------------------------------------- engine
ById(cs, cid) == {c \in cs : c.id = cid}

ByName(cs, name) == {c \in cs : c.name = name}

\* Failures the engine's state forces (name conflict, container gone) happen
\* whenever the state has them; any other failure (daemon error, timeout, image
\* missing) may strike any call while the fault budget lasts.
Faults(excs) == IF nfaults < MaxFaults THEN excs ELSE {}

\* containers.run(detach=True, name=...): the name is unique in the engine;
\* a failure may leave the container created but not started
RunOutcomes(cs, name) ==
    IF ByName(cs, name) # {}
    THEN {[exc |-> "APIError", created |-> FALSE, fault |-> FALSE]}
         \cup {[exc |-> e, created |-> FALSE, fault |-> TRUE] : e \in Faults({"Other"})}
    ELSE {[exc |-> "none", created |-> TRUE, fault |-> FALSE]}
         \cup {[exc |-> e, created |-> b, fault |-> TRUE] :
                   e \in Faults({"APIError", "Other"}), b \in BOOLEAN}
         \cup {[exc |-> e, created |-> FALSE, fault |-> TRUE] : e \in Faults({"NotFound"})}

\* containers.get(name_or_id)
GetOutcomes(found) ==
    {[exc |-> IF found THEN "none" ELSE "NotFound", fault |-> FALSE]}
    \cup {[exc |-> e, fault |-> TRUE] : e \in Faults({"APIError", "Other"})}

\* container.stop() / container.remove(): auto_remove deletes a stopped container
EndOutcomes(cs, cid) ==
    {[exc |-> IF ById(cs, cid) # {} THEN "none" ELSE "NotFound", fault |-> FALSE]}
    \cup {[exc |-> e, fault |-> TRUE] : e \in Faults({"APIError", "Other"})}

Fault(o) == nfaults' = IF o.fault THEN nfaults + 1 ELSE nfaults

Call(p, op, exc) == [calls EXCEPT ![p] = Append(@, [op |-> op, exc |-> exc])]

\* ------------------------------------------------------------------ Init
Init ==
    /\ client \in BOOLEAN
    /\ active_sessions = <<>>
    /\ status_log_messages = <<>>
    /\ clock = 0
    /\ containers = {}
    /\ next_id = 1
    /\ pc = [p \in Procs |-> "idle"]
    /\ session_id = [p \in Procs |-> NoSid]
    /\ session_info = [p \in Procs |-> None]
    /\ handle = [p \in Procs |-> NoHandle]
    /\ calls = [p \in Procs |-> <<>>]
    /\ popped = {}
    /\ nreq = 0
    /\ nfaults = 0
    /\ listing = [p \in Procs |-> None]
    /\ inserted = <<>>

\* what a view leaves behind when it returns redirect(url_for('home'))
Return(p) ==
    /\ pc' = [pc EXCEPT ![p] = "idle"]
    /\ session_id' = [session_id EXCEPT ![p] = NoSid]
    /\ session_info' = [session_info EXCEPT ![p] = None]
    /\ handle' = [handle EXCEPT ![p] = NoHandle]

Log(msg, sid) ==
    /\ status_log_messages' = add_status(status_log_messages, clock + 1, msg, sid)
    /\ clock' = clock + 1

NoLog == UNCHANGED <<status_log_messages, clock>>

\* an exception no except clause catches leaves the view
Crash(p) ==
    /\ pc' = [pc EXCEPT ![p] = "crashed"]
    /\ UNCHANGED <<session_id, session_info, handle>>

\* --------------------------------------------------------------- requests
RequestLaunch(p) ==
    /\ pc[p] = "idle"
    /\ nreq < MaxRequests
    /\ pc' = [pc EXCEPT ![p] = "launch_entry"]
    /\ calls' = [calls EXCEPT ![p] = <<>>]
    /\ nreq' = nreq + 1
    /\ UNCHANGED <<listing, inserted, client, active_sessions, status_log_messages, clock, containers,
                   next_id, session_id, session_info, handle, popped, nfaults>>

RequestStop(p) ==
    /\ pc[p] = "idle"
    /\ nreq < MaxRequests
    /\ \E s \in SessionIds :
          session_id' = [session_id EXCEPT ![p] = s]
    /\ pc' = [pc EXCEPT ![p] = "stop_entry"]
    /\ calls' = [calls EXCEPT ![p] = <<>>]
    /\ nreq' = nreq + 1
    /\ UNCHANGED <<listing, inserted, client, active_sessions, status_log_messages, clock, containers,
                   next_id, session_info, handle, popped, nfaults>>

\* ---------------------------------------------------------- launch_firefox
\* a create that registers a pending record before it calls the engine
LaunchEntryRegisterFirst(p) ==
    /\ pc[p] = "launch_entry"
    /\ IF NoClient(client)
       THEN /\ Log("no_client", NoSid)
            /\ Return(p)
            /\ UNCHANGED active_sessions
       ELSE \E s \in SessionIds :
            /\ session_id' = [session_id EXCEPT ![p] = s]
            /\ active_sessions' = DictSet(active_sessions, s, SessionRecord(NoHandle, s))
            /\ Log("attempt_launch", s)
            /\ pc' = [pc EXCEPT ![p] = "run"]
            /\ UNCHANGED <<session_info, handle>>
    /\ UNCHANGED <<listing, inserted, client, containers, next_id, calls, popped, nreq,
                   nfaults>>

LaunchEntry(p) ==
    /\ pc[p] = "launch_entry"
    /\ IF NoClient(client)
       THEN /\ Log("no_client", NoSid)
            /\ Return(p)
       ELSE \E s \in SessionIds :
            /\ session_id' = [session_id EXCEPT ![p] = s]
            /\ Log("attempt_launch", s)
            /\ pc' = [pc EXCEPT ![p] = "run"]
            /\ UNCHANGED <<session_info, handle>>
    /\ UNCHANGED <<listing, inserted, client, active_sessions, containers, next_id, calls, popped, nreq, nfaults>>

LaunchRun(p) ==
    /\ pc[p] = "run"
    /\ \E o \in RunOutcomes(containers, ContainerName(session_id[p])) :
          /\ calls' = Call(p, "run", o.exc)
          /\ Fault(o)
          /\ containers' =
                IF o.created
                THEN containers \cup {[id |-> next_id,
                                       name |-> ContainerName(session_id[p]),
                                       labels |-> Labels(session_id[p]),
                                       running |-> (o.exc = "none")]}
                ELSE containers
          /\ next_id' = IF o.created THEN next_id + 1 ELSE next_id
          /\ IF o.exc = "none"
             THEN /\ handle' = [handle EXCEPT ![p] = next_id]
                  /\ pc' = [pc EXCEPT ![p] = "insert"]
                  /\ UNCHANGED <<session_id, session_info>>
                  /\ NoLog
             ELSE LET h == Handler(o.exc, LaunchExcept)
                  IN  CASE h = "APIError" ->
                             /\ Log("err_launch", NoSid)
                             /\ pc' = [pc EXCEPT ![p] = "cleanup_get"]
                             /\ UNCHANGED <<session_id, session_info, handle>>
                        [] h = "Exception" ->
                             /\ Log("err_unexpected_launch", NoSid)
                             /\ Return(p)
                        [] OTHER ->
                             /\ NoLog
                             /\ Crash(p)
    /\ UNCHANGED <<listing, inserted, client, active_sessions, popped, nreq>>

LaunchInsert(p) ==
    /\ pc[p] = "insert"
    /\ active_sessions' = DictSet(active_sessions, session_id[p],
                                  SessionRecord(handle[p], session_id[p]))
    /\ inserted' = Append(inserted, handle[p])
    /\ Log("launched", session_id[p])
    /\ Return(p)
    /\ UNCHANGED <<listing, client, containers, next_id, calls, popped, nreq, nfaults>>

CleanupGet(p) ==
    /\ pc[p] = "cleanup_get"
    /\ LET found == ByName(containers, ContainerName(session_id[p]))
       IN  \E o \in GetOutcomes(found # {}) :
             /\ calls' = Call(p, "get", o.exc)
             /\ Fault(o)
             /\ IF o.exc = "none"
                THEN /\ handle' = [handle EXCEPT ![p] = (CHOOSE c \in found : TRUE).id]
                     /\ pc' = [pc EXCEPT ![p] = "cleanup_remove"]
                     /\ UNCHANGED <<session_id, session_info>>
                     /\ NoLog
                ELSE LET h == Handler(o.exc, CleanupExcept)
                     IN  CASE h = "NotFound" ->
                                /\ NoLog
                                /\ Return(p)
                           [] h = "Exception" ->
                                /\ Log("err_cleanup", session_id[p])
                                /\ Return(p)
                           [] OTHER ->
                                /\ NoLog
                                /\ Crash(p)
    /\ UNCHANGED <<listing, inserted, client, active_sessions, containers, next_id, popped, nreq>>

CleanupRemove(p) ==
    /\ pc[p] = "cleanup_remove"
    /\ \E o \in EndOutcomes(containers, handle[p]) :
          /\ calls' = Call(p, "remove", o.exc)
          /\ Fault(o)
          /\ IF o.exc = "none"
             THEN /\ containers' = containers \ ById(containers, handle[p])
                  /\ Log("cleaned_up", session_id[p])
                  /\ Return(p)
             ELSE /\ UNCHANGED containers
                  /\ LET h == Handler(o.exc, CleanupExcept)
                     IN  CASE h = "NotFound" ->
                                /\ NoLog
                                /\ Return(p)
                           [] h = "Exception" ->
                                /\ Log("err_cleanup", session_id[p])
                                /\ Return(p)
                           [] OTHER ->
                                /\ NoLog
                                /\ Crash(p)
    /\ UNCHANGED <<listing, inserted, client, active_sessions, next_id, popped, nreq>>

\* ------------------------------------------------------------ stop_firefox
StopEntry(p) ==
    /\ pc[p] = "stop_entry"
    /\ IF NoClient(client)
       THEN /\ Log("no_client", NoSid)
            /\ Return(p)
            /\ UNCHANGED <<active_sessions, popped>>
       ELSE LET r == DictPop(active_sessions, session_id[p])
            IN  /\ active_sessions' = r.dict
                /\ IF r.value # None
                   THEN /\ session_info' = [session_info EXCEPT ![p] = r.value]
                        /\ popped' = popped \cup {r.value.container_id}
                        /\ Log("attempt_stop", session_id[p])
                        /\ pc' = [pc EXCEPT ![p] = "stop_get"]
                        /\ UNCHANGED <<session_id, handle>>
                   ELSE /\ Log("warn_session_not_found", session_id[p])
                        /\ Return(p)
                        /\ UNCHANGED popped
    /\ UNCHANGED <<listing, inserted, client, containers, next_id, calls, nreq, nfaults>>

StopGet(p) ==
    /\ pc[p] = "stop_get"
    /\ LET found == ById(containers, session_info[p].container_id)
       IN  \E o \in GetOutcomes(found # {}) :
             /\ calls' = Call(p, "get", o.exc)
             /\ Fault(o)
             /\ active_sessions' =
                   IF o.exc = "none" THEN active_sessions
                   ELSE StopErrorRegistry(active_sessions, session_id[p], session_info[p])
             /\ IF o.exc = "none"
                THEN /\ handle' = [handle EXCEPT ![p] = session_info[p].container_id]
                     /\ pc' = [pc EXCEPT ![p] = "stop_stop"]
                     /\ UNCHANGED <<session_id, session_info>>
                     /\ NoLog
                ELSE LET h == Handler(o.exc, StopExcept)
                     IN  CASE h = "NotFound" ->
                                /\ Log("warn_container_gone", session_id[p])
                                /\ Return(p)
                           [] h = "APIError" ->
                                /\ Log("err_stop", session_id[p])
                                /\ Return(p)
                           [] h = "Exception" ->
                                /\ Log("err_unexpected_stop", session_id[p])
                                /\ Return(p)
                           [] OTHER ->
                                /\ NoLog
                                /\ Crash(p)
    /\ UNCHANGED <<listing, inserted, client, containers, next_id, popped, nreq>>

StopStop(p) ==
    /\ pc[p] = "stop_stop"
    /\ \E o \in EndOutcomes(containers, handle[p]) :
          /\ calls' = Call(p, "stop", o.exc)
          /\ Fault(o)
          /\ active_sessions' =
                IF o.exc = "none" THEN active_sessions
                ELSE StopErrorRegistry(active_sessions, session_id[p], session_info[p])
          /\ IF o.exc = "none"
             THEN /\ containers' = containers \ ById(containers, handle[p])
                  /\ Log("stopped", session_id[p])
                  /\ Return(p)
             ELSE /\ UNCHANGED containers
                  /\ LET h == Handler(o.exc, StopExcept)
                     IN  CASE h = "NotFound" ->
                                /\ Log("warn_container_gone", session_id[p])
                                /\ Return(p)
                           [] h = "APIError" ->
                                /\ Log("err_stop", session_id[p])
                                /\ Return(p)
                           [] h = "Exception" ->
                                /\ Log("err_unexpected_stop", session_id[p])
                                /\ Return(p)
                           [] OTHER ->
                                /\ NoLog
                                /\ Crash(p)
    /\ UNCHANGED <<listing, inserted, client, next_id, popped, nreq>>

Next ==
    \E p \in Procs :
       \/ RequestLaunch(p)
       \/ RequestStop(p)
       \/ LaunchEntry(p)
       \/ LaunchRun(p)
       \/ LaunchInsert(p)
       \/ CleanupGet(p)
       \/ CleanupRemove(p)
       \/ StopEntry(p)
       \/ StopGet(p)
       \/ StopStop(p)

Spec == Init /\ [][Next]_vars

\* ------------------------------------------------------------- warm start
\* The controller after its first launch_firefox call has succeeded (thread 1
\* served it): one session registered, its container running, two log entries.
\* nreq counts the requests that follow.
InitWarm ==
    \E s \in SessionIds :
       /\ client = TRUE
       /\ active_sessions = DictSet(<<>>, s, SessionRecord(1, s))
       /\ status_log_messages =
             add_status(add_status(<<>>, 1, "attempt_launch", s), 2, "launched", s)
       /\ clock = 2
       /\ containers = {[id |-> 1, name |-> ContainerName(s), labels |-> Labels(s),
                         running |-> TRUE]}
       /\ next_id = 2
       /\ pc = [p \in Procs |-> "idle"]
       /\ session_id = [p \in Procs |-> NoSid]
       /\ session_info = [p \in Procs |-> None]
       /\ handle = [p \in Procs |-> NoHandle]
       /\ calls = [p \in Procs |-> IF p = 1 THEN <<[op |-> "run", exc |-> "none"]>>
                                            ELSE <<>>]
       /\ popped = {}
       /\ nreq = 0
       /\ nfaults = 0
       /\ listing = [p \in Procs |-> None]
       /\ inserted = <<1>>

SpecWarm == InitWarm /\ [][Next]_vars

\* ------------------------------------------ add_status, statement by statement
\* Requests that only write the status log: stop_firefox for a session_id that is
\* not registered (or either view with client None) calls add_status once and
\* returns.  Here add_status is taken one statement at a time: the insert of
\* line 105, the test of line 107 and the pop of line 108 are separate steps of
\* the request thread, and other threads run between them.
RequestStopUnknown(p) ==
    /\ pc[p] = "idle"
    /\ nreq < MaxLogRequests
    /\ \E s \in SessionIds :
          session_id' = [session_id EXCEPT ![p] = s]
    /\ pc' = [pc EXCEPT ![p] = "stop_entry"]
    /\ nreq' = nreq + 1
    /\ UNCHANGED <<client, active_sessions, status_log_messages, clock, containers,
                   next_id, session_info, handle, calls, popped, nfaults, listing, inserted>>

StopUnknownInsert(p) ==
    /\ pc[p] = "stop_entry"
    /\ NoClient(client) \/ session_id[p] \notin Keys(active_sessions)
    /\ status_log_messages' =
          <<Entry(clock + 1,
                  IF NoClient(client) THEN "no_client" ELSE "warn_session_not_found",
                  IF NoClient(client) THEN NoSid ELSE session_id[p])>>
          \o status_log_messages
    /\ clock' = clock + 1
    /\ pc' = [pc EXCEPT ![p] = "add_check"]
    /\ UNCHANGED <<client, active_sessions, containers, next_id, session_id, session_info,
                   handle, calls, popped, nreq, nfaults, listing, inserted>>

AddStatusCheck(p) ==
    /\ pc[p] = "add_check"
    /\ IF Len(status_log_messages) > MaxLog
       THEN /\ pc' = [pc EXCEPT ![p] = "add_pop"]
            /\ UNCHANGED <<session_id, session_info, handle>>
       ELSE Return(p)
    /\ UNCHANGED <<client, active_sessions, status_log_messages, clock, containers,
                   next_id, calls, popped, nreq, nfaults, listing, inserted>>

AddStatusPop(p) ==
    /\ pc[p] = "add_pop"
    /\ Len(status_log_messages) > 0
    /\ status_log_messages' =
          SubSeq(status_log_messages, 1, Len(status_log_messages) - 1)
    /\ pc' = [pc EXCEPT ![p] = "add_check"]
    /\ UNCHANGED <<client, active_sessions, clock, containers, next_id, session_id,
                   session_info, handle, calls, popped, nreq, nfaults, listing, inserted>>

NextLog ==
    \E p \in Procs :
       \/ RequestStopUnknown(p)
       \/ StopUnknownInsert(p)
       \/ AddStatusCheck(p)
       \/ AddStatusPop(p)

SpecLog == Init /\ [][NextLog]_vars

\* -------------------------------------------------------------------- home
\* home hands the live active_sessions dict to the template, whose for loop
\* iterates sessions.items() in the request thread.  A dict iterator remembers
\* the size of the dict when it is created and raises RuntimeError (dictionary
\* changed size during iteration) from the next item on once the size differs.
\* snap is what a copy taken when the iteration starts would hold; listing[p]
\* stays behind as the page the request returned.  (Positions count the items of
\* the sequence; the slot a deletion leaves in the dict's entry table is not
\* modelled.)
HomeRequest(p) ==
    /\ pc[p] = "idle"
    /\ nreq < MaxRequests
    /\ pc' = [pc EXCEPT ![p] = "home"]
    /\ calls' = [calls EXCEPT ![p] = <<>>]
    /\ nreq' = nreq + 1
    /\ UNCHANGED <<client, active_sessions, status_log_messages, clock, containers,
                   next_id, session_id, session_info, handle, popped, nfaults,
                   listing, inserted>>

HomeBegin(p) ==
    /\ pc[p] = "home"
    /\ listing' = [listing EXCEPT ![p] = [used |-> Len(active_sessions),
                                          pos  |-> 0,
                                          out  |-> <<>>,
                                          snap |-> active_sessions]]
    /\ pc' = [pc EXCEPT ![p] = "render"]
    /\ UNCHANGED <<client, active_sessions, status_log_messages, clock, containers,
                   next_id, session_id, session_info, handle, calls, popped, nreq,
                   nfaults, inserted>>

HomeNext(p) ==
    /\ pc[p] = "render"
    /\ IF Len(active_sessions) # listing[p].used
       THEN /\ Crash(p)
            /\ UNCHANGED listing
       ELSE IF listing[p].pos = listing[p].used
       THEN /\ Return(p)
            /\ UNCHANGED listing
       ELSE /\ listing' = [listing EXCEPT
                             ![p].pos = @ + 1,
                             ![p].out = Append(@, active_sessions[listing[p].pos + 1])]
            /\ UNCHANGED <<pc, session_id, session_info, handle>>
    /\ UNCHANGED <<client, active_sessions, status_log_messages, clock, containers,
                   next_id, calls, popped, nreq, nfaults, inserted>>

NextHome ==
    \/ Next
    \/ \E p \in Procs :
          \/ HomeRequest(p)
          \/ HomeBegin(p)
          \/ HomeNext(p)

SpecHome == Init /\ [][NextHome]_vars

\* ------------------------------------------------------ claim vocabulary
Stepped(p) == pc'[p] # pc[p]

Last(q) == q[Len(q)]

RegisteredIds(d) == {d[i].v.container_id : i \in 1..Len(d)}

InStop(p) == pc[p] \in {"stop_get", "stop_stop"}

InLaunch(p) == pc[p] \in {"run", "insert", "cleanup_get", "cleanup_remove"}

RunFailed(p) == pc[p] = "run" /\ pc'[p] \notin {"run", "insert"}

Logged(msgs, sid) ==
    /\ clock' = clock + 1
    /\ Len(status_log_messages') > 0
    /\ Head(status_log_messages').t = clock'
    /\ Head(status_log_messages').msg \in msgs
    /\ Head(status_log_messages').sid = sid

\* C1: Removal invariant. With the client available, the step of stop_firefox(S)
\* that finds S registered takes S out of active_sessions; no later step of that
\* call touches active_sessions, whatever the engine answers to get and stop; and
\* a record a stop call has obtained is never in active_sessions again.
C1_RemovalInvariant ==
    [][ /\ \A p \in Procs :
             /\ (pc[p] = "stop_entry" /\ Stepped(p) /\ client)
                   => session_id[p] \notin Keys(active_sessions')
             /\ (InStop(p) /\ Stepped(p))
                   => /\ active_sessions' = active_sessions
                      /\ session_id[p] \in Keys(active_sessions') =>
                            DictGet(active_sessions', session_id[p]) # session_info[p]
        /\ RegisteredIds(active_sessions') \cap popped' = {}
      ]_vars

\* a stop call has returned after the engine refused to stop the container, and
\* the session is gone from the registry while its container still runs
C1_Witness ==
    \E p \in Procs :
       /\ pc[p] = "idle"
       /\ calls[p] # <<>>
       /\ Last(calls[p]) = [op |-> "stop", exc |-> "APIError"]
       /\ active_sessions = <<>>
       /\ \E c \in containers : c.id \in popped /\ c.running

\* C2: Double-stop safety. A record is obtained by at most one stop call: the
\* record a stop call pops was never obtained by an earlier stop call, and no two
\* stop calls in flight hold the same record.  A stop call that finds its
\* session_id absent makes no engine call, leaves the registry as it is, logs the
\* "Session ID not found" warning and returns.
C2_DoubleStop ==
    [][ /\ \A p \in Procs :
             (pc[p] = "stop_entry" /\ Stepped(p) /\ client) =>
                IF session_id[p] \in Keys(active_sessions)
                THEN /\ DictGet(active_sessions, session_id[p]).container_id \notin popped
                     /\ pc'[p] = "stop_get"
                ELSE /\ active_sessions' = active_sessions
                     /\ containers' = containers
                     /\ calls'[p] = <<>>
                     /\ pc'[p] = "idle"
                     /\ Logged({"warn_session_not_found"}, session_id[p])
        /\ \A p, q \in Procs :
             (p # q /\ pc'[p] \in {"stop_get", "stop_stop"}
                    /\ pc'[q] \in {"stop_get", "stop_stop"})
                => session_info'[p].container_id # session_info'[q].container_id
      ]_vars

\* the second of two stop calls on the same session_id has logged its warning
\* after the first one obtained the record
C2_Witness ==
    \E i, j \in 1..Len(status_log_messages) :
       /\ i < j
       /\ status_log_messages[i].msg = "warn_session_not_found"
       /\ status_log_messages[j].msg = "attempt_stop"
       /\ status_log_messages[i].sid = status_log_messages[j].sid
       /\ \E p \in Procs : pc[p] = "idle" /\ calls[p] = <<>>

\* C3: A failed launch registers nothing. The step in which containers.run fails
\* leaves active_sessions as it was and adds a launch-error entry to the status
\* log; the cleanup steps that follow leave active_sessions as it was and never
\* lead to the insertion.
C3_FailedLaunchRegistersNothing ==
    [][ \A p \in Procs :
          /\ RunFailed(p) =>
                /\ active_sessions' = active_sessions
                /\ pc'[p] \in {"cleanup_get", "idle"}
                /\ Logged({"err_launch", "err_unexpected_launch"}, NoSid)
          /\ (pc[p] \in {"cleanup_get", "cleanup_remove"} /\ Stepped(p)) =>
                /\ active_sessions' = active_sessions
                /\ pc'[p] \in {"cleanup_remove", "idle"}
      ]_vars

\* a launch failed and returned while another session stayed registered
C3_Witness ==
    \E p \in Procs :
       /\ pc[p] = "idle"
       /\ calls[p] # <<>>
       /\ calls[p][1].op = "run"
       /\ calls[p][1].exc # "none"
       /\ Len(active_sessions) = 1
       /\ \E i \in 1..Len(status_log_messages) :
             status_log_messages[i].msg \in {"err_launch", "err_unexpected_launch"}

\* C4: Every failed launch triggers best-effort cleanup. A launch_firefox call
\* whose containers.run failed has called containers.get before it returns, and
\* remove after a get that found the container.
C4_CleanupOnEveryFailure ==
    [][ \A p \in Procs :
          (InLaunch(p) /\ pc'[p] = "idle" /\ calls'[p][1].exc # "none") =>
             /\ \E i \in 1..Len(calls'[p]) : calls'[p][i].op = "get"
             /\ \A i \in 1..Len(calls'[p]) :
                   calls'[p][i] = [op |-> "get", exc |-> "none"] =>
                      (i < Len(calls'[p]) /\ calls'[p][i + 1].op = "remove")
      ]_vars

\* C5: Create never overwrites an existing session. No step replaces the record
\* stored under a session_id that is already registered.
C5_CreateNeverOverwrites ==
    [][ \A s \in Keys(active_sessions) \cap Keys(active_sessions') :
           DictGet(active_sessions', s) = DictGet(active_sessions, s)
      ]_vars

\* C6: Registered implies live. Every record of the registry names a container
\* that exists in the engine and runs.
C6_RegisteredImpliesLive ==
    \A i \in 1..Len(active_sessions) :
       \E c \in containers :
          c.id = active_sessions[i].v.container_id /\ c.running

\* C7: One instance per session. When launch_firefox registers session S and
\* returns, exactly one container named firefox-session-S exists; and never do
\* two running containers carry the name, and so the labels, of one session_id.
C7_OneInstancePerSession ==
    [][ /\ \A p \in Procs :
             (pc[p] = "insert" /\ pc'[p] = "idle") =>
                Cardinality(ByName(containers', ContainerName(session_id[p]))) = 1
        /\ \A s \in SessionIds :
             Cardinality({c \in ByName(containers', ContainerName(s)) : c.running}) <= 1
      ]_vars

\* C8: Uniqueness invariant. The registry holds at most one record per
\* session_id, and two records under different session_ids differ in container
\* name and in container id.
C8_Uniqueness ==
    \A i, j \in 1..Len(active_sessions) :
       i # j =>
          /\ active_sessions[i].k # active_sessions[j].k
          /\ active_sessions[i].v.container_name # active_sessions[j].v.container_name
          /\ active_sessions[i].v.container_id # active_sessions[j].v.container_id

\* two sessions are registered at once, each backed by a running container
C8_Witness ==
    /\ Len(active_sessions) = 2
    /\ \A i \in 1..Len(active_sessions) :
          \E c \in containers : c.id = active_sessions[i].v.container_id /\ c.running

\* the status-log entry that classifies a failed engine call
Classified(p) ==
    LET c == Last(calls'[p])
    IN  CASE c.op = "run" ->
               Logged(IF c.exc = "Other" THEN {"err_unexpected_launch"}
                                         ELSE {"err_launch"}, NoSid)
          [] c.op = "remove" \/ pc[p] = "cleanup_get" ->
               Logged({"err_cleanup"}, session_id[p])
          [] OTHER ->
               Logged(CASE c.exc = "NotFound" -> {"warn_container_gone"}
                        [] c.exc = "APIError" -> {"err_stop"}
                        [] OTHER              -> {"err_unexpected_stop"},
                      session_id[p])

EngineCallFailed(p) ==
    /\ calls'[p] # calls[p]
    /\ calls'[p] # <<>>
    /\ Last(calls'[p]).exc # "none"

SilentNotFound(p) ==
    /\ pc[p] \in {"cleanup_get", "cleanup_remove"}
    /\ Last(calls'[p]).exc = "NotFound"

C10_EngineUnavailable ==
    [][ ~client =>
          /\ containers' = containers
          /\ active_sessions' = active_sessions
          /\ active_sessions' = <<>>
          /\ \A p \in Procs :
                /\ calls'[p] = <<>>
                /\ (pc[p] \in {"launch_entry", "stop_entry"} /\ Stepped(p)) =>
                      /\ pc'[p] = "idle"
                      /\ Logged({"no_client"}, NoSid)
                /\ (pc[p] = "idle" /\ Stepped(p)) =>
                      UNCHANGED <<status_log_messages, clock>>
      ]_vars

\* with client None, requests have been refused and each left one entry
C10_Witness ==
    /\ ~client
    /\ nreq = 2
    /\ Len(status_log_messages) = 2
    /\ \A i \in 1..Len(status_log_messages) : status_log_messages[i].msg = "no_client"
    /\ \A p \in Procs : pc[p] = "idle"

Min(a, b) == IF a < b THEN a ELSE b

\* C11: Status log is bounded and ordered. Whenever no add_status call is under
\* way, status_log_messages holds the 10 most recently added entries (all of
\* them while fewer than 10 were added), newest first.
C11_LogBoundedOrdered ==
    (\A p \in Procs : pc[p] \notin {"add_check", "add_pop"}) =>
       /\ Len(status_log_messages) = Min(clock, MaxLog)
       /\ \A i \in 1..Len(status_log_messages) :
             status_log_messages[i].t = clock - i + 1

LabelKey(prefix, name, suffix) == <<prefix>> \o name \o <<suffix>>

\* C12: Routing metadata contract. The labels of every container launched for
\* session S declare a router with the rule PathPrefix(/session/S) on the
\* entrypoint web, a service on port FIREFOX_INTERNAL_PORT, and a strip-prefix
\* middleware removing /session/S; the middleware the router names is the one the
\* labels define, and the labels hold nothing else but traefik.enable.
C12_RoutingContract ==
    \A c \in containers : \A s \in SessionIds :
       c.name = ContainerName(s) =>
          LET L == c.labels
              router == LabelKey("traefik.http.routers.", c.name, ".middlewares")
          IN  /\ Cardinality(DOMAIN L) = 6
              /\ L[<<"traefik.enable">>] = <<"true">>
              /\ L[LabelKey("traefik.http.routers.", c.name, ".rule")]
                    = <<"PathPrefix(", "/session/", IdStr(s), ")">>
              /\ L[LabelKey("traefik.http.routers.", c.name, ".entrypoints")] = <<"web">>
              /\ L[LabelKey("traefik.http.services.", c.name, ".loadbalancer.server.port")]
                    = <<"5800">>
              /\ router \in DOMAIN L
              /\ LabelKey("traefik.http.middlewares.", L[router], ".stripprefix.prefixes")
                    \in DOMAIN L
              /\ L[LabelKey("traefik.http.middlewares.", L[router], ".stripprefix.prefixes")]
                    = <<"/session/", IdStr(s)>>

\* a container launched by launch_firefox runs with its labels
C12_Witness ==
    \E c \in containers : c.running /\ c.id \in RegisteredIds(active_sessions)

ValuesAt(L, suffix) == {L[k] : k \in {j \in DOMAIN L : j[Len(j)] = suffix}}

\* C13: Route naming is collision-free. The label keys of two containers launched
\* for different session ids share traefik.enable only (so router, service and
\* middleware names differ), and their rules, the middlewares their routers name
\* and their stripped prefixes differ.
C13_RouteNamesDisjoint ==
    \A c, d \in containers :
       c.name # d.name =>
          /\ DOMAIN c.labels \cap DOMAIN d.labels = {<<"traefik.enable">>}
          /\ \A suffix \in {".rule", ".middlewares", ".stripprefix.prefixes"} :
                ValuesAt(c.labels, suffix) \cap ValuesAt(d.labels, suffix) = {}

\* two sessions with different ids are active at once
C13_Witness ==
    \E c, d \in containers :
       /\ c.name # d.name
       /\ c.running /\ d.running
       /\ {c.id, d.id} \subseteq RegisteredIds(active_sessions)

\* C14 as stated: Removal ordering. A session's record is out of the registry
\* only after a stop attempt on its workload: a stop call that holds the popped
\* record has already called stop.
C14_RemovedOnlyAfterStopAttempt ==
    \A p \in Procs :
       InStop(p) => \E i \in 1..Len(calls[p]) : calls[p][i].op = "stop"

\* C14 as amended: in every stop call the record is removed from the registry
\* first; the call has made no engine call when it removes the record, and each
\* of its engine calls (get, stop) is made with the record already removed.
C14_RemovalPrecedesStop ==
    [][ \A p \in Procs :
          /\ (pc[p] = "stop_entry" /\ pc'[p] = "stop_get") =>
                /\ calls'[p] = <<>>
                /\ session_id[p] \in Keys(active_sessions)
                /\ session_info'[p] = DictGet(active_sessions, session_id[p])
                /\ session_info'[p].container_id \notin RegisteredIds(active_sessions')
          /\ (InStop(p) /\ Stepped(p)) =>
                /\ Len(calls'[p]) = Len(calls[p]) + 1
                /\ Last(calls'[p]).op \in {"get", "stop"}
                /\ session_info[p].container_id \notin RegisteredIds(active_sessions)
      ]_vars

\* a stop call is about to call stop: its record is gone from the registry while
\* the container still runs
C14_Witness ==
    \E p \in Procs :
       /\ pc[p] = "stop_stop"
       /\ calls[p] = <<[op |-> "get", exc |-> "none"]>>
       /\ handle[p] \notin RegisteredIds(active_sessions)
       /\ \E c \in containers : c.id = handle[p] /\ c.running

\* C15: Stop outcome classification. A stop call that found its session logs
\* "Attempting to stop" and then exactly one outcome entry, with which it
\* returns: "Stopped container" when get and stop both succeeded, the "already
\* removed or not found" warning on NotFound, an ERROR entry on any other failure.
C15_StopOutcome ==
    [][ \A p \in Procs :
          /\ (pc[p] = "stop_entry" /\ pc'[p] = "stop_get") =>
                Logged({"attempt_stop"}, session_id[p])
          /\ (InStop(p) /\ Stepped(p)) =>
                LET c == Last(calls'[p])
                IN  IF c = [op |-> "get", exc |-> "none"]
                    THEN /\ pc'[p] = "stop_stop"
                         /\ UNCHANGED <<status_log_messages, clock>>
                    ELSE /\ pc'[p] = "idle"
                         /\ Logged(CASE c.exc = "none"     -> {"stopped"}
                                     [] c.exc = "NotFound" -> {"warn_container_gone"}
                                     [] OTHER -> {"err_stop", "err_unexpected_stop"},
                                   session_id[p])
      ]_vars

\* a stop call found its session, the engine answered NotFound, and the warning
\* follows the "Attempting to stop" entry in the log
C15_Witness ==
    \E i \in 1..Len(status_log_messages) - 1 :
       /\ status_log_messages[i].msg = "warn_container_gone"
       /\ status_log_messages[i + 1].msg = "attempt_stop"
       /\ status_log_messages[i].sid = status_log_messages[i + 1].sid
       /\ \A p \in Procs : pc[p] = "idle"

\* C17: Snapshot reads. The session list a home request renders is the registry
\* as it was when the rendering started: the rendering never fails, what it has
\* listed so far is the beginning of that snapshot, and the finished page is the
\* whole of it, whatever create and stop calls ran meanwhile.
C17_SnapshotReads ==
    \A p \in Procs :
       listing[p] # None =>
          /\ pc[p] # "crashed"
          /\ listing[p].out = SubSeq(listing[p].snap, 1, Len(listing[p].out))
          /\ pc[p] # "render" => listing[p].out = listing[p].snap

EngineCallPending(p) ==
    pc[p] \in {"run", "cleanup_get", "cleanup_remove", "stop_get", "stop_stop"}

\* C16: Two-phase create without blocking. While a thread waits on an engine
\* call, the next step of every other create, stop or list call is enabled,
\* whatever its position.  The steps of a create up to the return of
\* containers.run leave the registry alone, and a record enters the registry only
\* by the insert of a create whose containers.run has returned a container.
C16_TwoPhaseCreate ==
    [][ /\ \A p, q \in Procs :
             (p # q /\ EngineCallPending(p)) =>
                /\ pc[q] = "launch_entry" => ENABLED LaunchEntry(q)
                /\ pc[q] = "run" => ENABLED LaunchRun(q)
                /\ pc[q] = "insert" => ENABLED LaunchInsert(q)
                /\ pc[q] = "cleanup_get" => ENABLED CleanupGet(q)
                /\ pc[q] = "cleanup_remove" => ENABLED CleanupRemove(q)
                /\ pc[q] = "stop_entry" => ENABLED StopEntry(q)
                /\ pc[q] = "stop_get" => ENABLED StopGet(q)
                /\ pc[q] = "stop_stop" => ENABLED StopStop(q)
                /\ pc[q] = "home" => ENABLED HomeBegin(q)
                /\ pc[q] = "render" => ENABLED HomeNext(q)
        /\ \A p \in Procs :
             (pc[p] \in {"launch_entry", "run"} /\ Stepped(p)) =>
                active_sessions' = active_sessions
        /\ active_sessions' # active_sessions /\ Len(active_sessions') >= Len(active_sessions) =>
             \E p \in Procs :
                /\ pc[p] = "insert" /\ pc'[p] = "idle"
                /\ calls[p] = <<[op |-> "run", exc |-> "none"]>>
                /\ DictGet(active_sessions', session_id[p]).container_id = handle[p]
                /\ handle[p] \notin RegisteredIds(active_sessions)
      ]_vars

\* while one create waits on containers.run, unregistered, another thread has
\* run a whole create for another session id
C16_Witness ==
    \E p, q \in Procs :
       /\ p # q
       /\ nreq = 2
       /\ pc[p] = "run"
       /\ session_id[p] \notin Keys(active_sessions)
       /\ pc[q] = "idle"
       /\ calls[q] = <<[op |-> "run", exc |-> "none"]>>
       /\ Len(status_log_messages) = 3
       /\ status_log_messages[1].msg = "launched"
       /\ status_log_messages[1].sid # session_id[p]
       /\ status_log_messages[2].msg = "attempt_launch"
       /\ status_log_messages[3].msg = "attempt_launch"
       /\ status_log_messages[3].sid = session_id[p]

InsertedAt(cid) == CHOOSE n \in 1..Len(inserted) : inserted[n] = cid

\* C18: Listing order is insertion order. The registry, in the order the session
\* list enumerates it, holds its records in the order in which line 162 stored
\* them.
C18_ListingInsertionOrder ==
    \A i, j \in 1..Len(active_sessions) :
       i < j => InsertedAt(active_sessions[i].v.container_id)
                   < InsertedAt(active_sessions[j].v.container_id)

\* C19: Failure cleanup never harms a registered session. The remove of the
\* cleanup after a failed launch never removes a container that backs a record of
\* the registry or that another create call is about to register.
C19_CleanupSparesRegistered ==
    [][ \A p \in Procs :
          (pc[p] = "cleanup_remove" /\ Stepped(p)) =>
             \A c \in containers \ containers' :
                /\ c.id \notin RegisteredIds(active_sessions)
                /\ \A q \in Procs : pc[q] = "insert" => handle[q] # c.id
      ]_vars

\* C20: No orphaned workloads at quiescence. When no create or stop call is in
\* flight, every container in the engine is the container of a record of the
\* registry.
C20_NoOrphans ==
    (\A p \in Procs : pc[p] = "idle") =>
       \A c \in containers : c.id \in RegisteredIds(active_sessions)

TypeOK ==
    /\ client \in BOOLEAN
    /\ Len(status_log_messages) <= MaxLog + NumProcs
    /\ nreq \in Nat
    /\ \A p \in Procs : pc[p] \in {"idle", "launch_entry", "run", "insert", "cleanup_get",
                                   "cleanup_remove", "stop_entry", "stop_get", "stop_stop",
                                   "crashed", "add_check", "add_pop", "home", "render"}
====
